---- MODULE Spec2Model ----
(***************************************************************************)
(* Model of simple_http's request ingestion: the chunked delimiter reader  *)
(* with its pushback queue (src/src/http/reader.rs), the start-line and    *)
(* header parser (src/src/http.rs) and the acceptor loop                    *)
(* (src/src/bin/simple_http.rs).                                            *)
(*                                                                         *)
(* A byte is a one-element string; CR, LF, NUL and XFF stand for 0x0D,      *)
(* 0x0A, 0x00 and 0xFF. Text is a sequence of bytes.                        *)
(***************************************************************************)
EXTENDS Integers, Sequences, FiniteSets, TLC

VARIABLES
    server,      \* acceptor loop: "accepting", "handling", "exited", "panicked", or "harness"
    wire,        \* every byte the underlying source will ever deliver (fixed per connection)
    src,         \* bytes of the underlying source not yet pulled by a raw read
    partials,    \* how many more raw reads may deliver fewer bytes than are available
    errs,        \* how many more raw reads may fail with an I/O error
    internal,    \* RequestReader.internal, the pushback queue
    pc,          \* position of the running call
    caller,      \* who called read_until: "start_line", "headers" or "harness"
    pat,         \* pattern of the running (or last) read_until
    chunk,       \* N of the running (or last) read_until
    output,      \* `output` of the running read_until
    ret,         \* result of the last read / read_until
    start_line,  \* the string read_start_line returned
    outcome,     \* what try_from_reader did: a Request, a typed error or a panic
    calls,       \* number of calls the harness has made
    spos,        \* history: logical stream position (wire bytes handed to callers)
    callStart,   \* history: spos when the last read_until was called
    cuts,        \* history: spos at the end of each chunk of the last read_until
    lastChunk,   \* history: the last internal_read's delivery and where it should start
    workers      \* the reader/parser pairs of concurrent workers, each with its own state

vars == <<server, wire, src, partials, errs, internal, pc, caller, pat, chunk,
          output, ret, start_line, outcome, calls, spos, callStart, cuts, lastChunk,
          workers>>

----------------------------------------------------------------------------
(* Bytes *)

CR == "<CR>"
LF == "<LF>"
SP == " "
NUL == "<NUL>"
XFF == "<FF>"

CRLF == <<CR, LF>>
CRLFCRLF == <<CR, LF, CR, LF>>

\* const BUFFERED_READER_BUF_SIZE: usize = 2048, scaled down for the search: what the
\* code relies on is kept, HEADERS_CHUNK < BUFFERED_READER_BUF_SIZE and every request
\* of Wires fits one raw read.
BUFFERED_READER_BUF_SIZE == 80
\* read_until_with_chunk_size::<16>("\r\n")
START_LINE_CHUNK == 16
\* read_until_with_chunk_size::<64>("\r\n\r\n")
HEADERS_CHUNK == 64

Min(a, b) == IF a < b THEN a ELSE b

\* [0; k]
Zeros(k) == [i \in 1..k |-> NUL]

\* &s[from..to] with Rust's 0-based, end-exclusive bounds
Slice(s, from, to) == SubSeq(s, from + 1, to)

\* haystack.windows(pattern.len()).position(|w| w == pattern); -1 for None
Position(hay, pattern) ==
    LET idxs == {i \in 0..(Len(hay) - Len(pattern)) :
                    Slice(hay, i, i + Len(pattern)) = pattern}
    IN  IF idxs = {} THEN -1
        ELSE CHOOSE i \in idxs : \A j \in idxs : i <= j

\* str::split(sep): the pieces between non-overlapping occurrences, left to right
RECURSIVE Split(_, _)
Split(s, sep) ==
    LET i == Position(s, sep)
    IN  IF i = -1 THEN <<s>>
        ELSE <<Slice(s, 0, i)>> \o Split(Slice(s, i + Len(sep), Len(s)), sep)

\* String::from_utf8(bytes).is_ok(): over this alphabet only 0xFF is not UTF-8
IsUtf8(bytes) == \A i \in 1..Len(bytes) : bytes[i] # XFF

\* s.strip_suffix(suffix): [some |-> TRUE, str |-> ...] or None
StripSuffix(s, suffix) ==
    IF Len(s) >= Len(suffix) /\ Slice(s, Len(s) - Len(suffix), Len(s)) = suffix
    THEN [some |-> TRUE, str |-> Slice(s, 0, Len(s) - Len(suffix))]
    ELSE [some |-> FALSE, str |-> <<>>]

----------------------------------------------------------------------------
(* The underlying source: what one self.reader.read(&mut tmp) can return *)

\* Ok(k bytes), 0 only at the end of the stream, or Err
RawReads(s, p, e) ==
    LET avail == Min(Len(s), BUFFERED_READER_BUF_SIZE)
    IN  {[err |-> FALSE, data |-> Slice(s, 0, avail), short |-> FALSE]}
        \cup {[err |-> FALSE, data |-> Slice(s, 0, k), short |-> TRUE] :
                 k \in IF p > 0 THEN 1..(avail - 1) ELSE {}}
        \cup {[err |-> TRUE, data |-> <<>>, short |-> FALSE] :
                 x \in IF e > 0 THEN {0} ELSE {}}

----------------------------------------------------------------------------
(* RequestReader::internal_read *)

\* An internal_read that pops from the back of the queue (pop_back)
internal_read_pop_back(q, buf, d) ==
    LET len == Len(buf)
        n == Min(len, Len(q))
        popped == Slice(q, Len(q) - n, Len(q))
        q1 == Slice(q, 0, Len(q) - n)
    IN  IF len = 0
        THEN [ok |-> TRUE, n |-> 0, buf |-> buf, internal |-> q, raw |-> FALSE, popped |-> n]
        ELSE IF n < len
        THEN IF d.err
             THEN [ok |-> FALSE, n |-> 0,
                   buf |-> popped \o Slice(buf, n, len),
                   internal |-> q1, raw |-> TRUE,
                   popped |-> n]
             ELSE LET external_free == len - n
                      tmp == d.data \o Zeros(BUFFERED_READER_BUF_SIZE - Len(d.data))
                      tmp_size == Len(d.data)
                      end_idx == Min(tmp_size, external_free)
                  IN  [ok |-> TRUE, n |-> n + end_idx,
                       buf |-> popped \o Slice(tmp, 0, end_idx)
                                      \o Slice(buf, n + end_idx, len),
                       internal |-> IF tmp_size > end_idx
                                    THEN q1 \o Slice(tmp, end_idx, Len(tmp))
                                    ELSE q1,
                       raw |-> TRUE, popped |-> n]
        ELSE [ok |-> TRUE, n |-> n, buf |-> popped, internal |-> q1, raw |-> FALSE, popped |-> n]

\* q: self.internal, buf: the caller's buffer, d: what the raw read returns if made
internal_read(q, buf, d) ==
    LET len == Len(buf)
        n == Min(len, Len(q))
        popped == Slice(q, 0, n)
        q1 == Slice(q, n, Len(q))
    IN  IF len = 0
        THEN [ok |-> TRUE, n |-> 0, buf |-> buf, internal |-> q, raw |-> FALSE, popped |-> n]
        ELSE IF n < len
        THEN IF d.err
             THEN [ok |-> FALSE, n |-> 0,
                   buf |-> popped \o Slice(buf, n, len),
                   internal |-> q1, raw |-> TRUE,
                   popped |-> n]
             ELSE LET external_free == len - n
                      tmp == d.data \o Zeros(BUFFERED_READER_BUF_SIZE - Len(d.data))
                      tmp_size == Len(d.data)
                      end_idx == Min(tmp_size, external_free)
                  IN  [ok |-> TRUE, n |-> n + end_idx,
                       buf |-> popped \o Slice(tmp, 0, end_idx)
                                      \o Slice(buf, n + end_idx, len),
                       internal |-> IF tmp_size > end_idx
                                    THEN q1 \o Slice(tmp, end_idx, Len(tmp))
                                    ELSE q1,
                       raw |-> TRUE, popped |-> n]
        ELSE [ok |-> TRUE, n |-> n, buf |-> popped, internal |-> q1, raw |-> FALSE, popped |-> n]

\* The raw reads an internal_read of len bytes can meet: one, when it makes none
Deliveries(q, len) ==
    IF len = 0 \/ Len(q) >= len
    THEN {[err |-> FALSE, data |-> <<>>, short |-> FALSE]}
    ELSE RawReads(src, partials, errs)

\* The source and its budgets after internal_read r met delivery d
SourceAfter(r, d) ==
    /\ src' = IF r.raw /\ ~d.err THEN Slice(src, Len(d.data), Len(src)) ELSE src
    /\ partials' = IF r.raw /\ d.short THEN partials - 1 ELSE partials
    /\ errs' = IF r.raw /\ d.err THEN errs - 1 ELSE errs


----------------------------------------------------------------------------
(* RequestReader::read_until_with_chunk_size: one iteration of its loop *)

NoResult == [op |-> "none", kind |-> "none", err |-> "", bytes |-> <<>>]

\* History of one internal_read: where it started, its buffer length, the length of
\* the queue before it, the bytes it popped, its count, its bytes and, in
\* read_until, end_idx and the chunks buf[..n] of the call so far, end to end
NoChunk ==
    [from |-> 0, data |-> <<>>, afterUntil |-> FALSE, len |-> 0, queued |-> 0,
     popped |-> 0, n |-> 0, endIdx |-> 0, seen |-> <<>>]

\* read_until_iter returning what it has, without error, when the stream ends
read_until_iter_silent_eof(q, out, pattern, N, d) ==
    LET r == internal_read(q, Zeros(N), d)
        n == r.n
        buf == r.buf
        index == Position(Slice(buf, 0, n), pattern)
        end_idx == index + Len(pattern)
    IN  IF ~r.ok
        THEN [done |-> TRUE, kind |-> "Err", err |-> "Io", output |-> <<>>,
              internal |-> r.internal, raw |-> r.raw, popped |-> r.popped, n |-> 0, found |-> FALSE,
              endIdx |-> 0, data |-> <<>>]
        ELSE IF n = 0
        THEN [done |-> TRUE, kind |-> "Ok", err |-> "", output |-> out,
              internal |-> r.internal, raw |-> r.raw, popped |-> r.popped, n |-> 0, found |-> FALSE,
              endIdx |-> 0, data |-> <<>>]
        ELSE IF index # -1
        THEN [done |-> TRUE, kind |-> "Ok", err |-> "",
              output |-> out \o Slice(buf, 0, end_idx),
              internal |-> IF end_idx < n
                           THEN r.internal \o Slice(buf, end_idx, Len(buf))
                           ELSE r.internal,
              raw |-> r.raw, popped |-> r.popped, n |-> n, found |-> TRUE, endIdx |-> end_idx,
              data |-> Slice(buf, 0, n)]
        ELSE [done |-> FALSE, kind |-> "none", err |-> "",
              output |-> out \o buf,
              internal |-> r.internal, raw |-> r.raw, popped |-> r.popped, n |-> n, found |-> FALSE,
              endIdx |-> 0, data |-> Slice(buf, 0, n)]

\* A read_until_iter that carries the end of the previous chunk into the search,
\* and so stops at an occurrence that spans two chunks
read_until_iter_carry(q, out, pattern, N, d) ==
    LET r == internal_read(q, Zeros(N), d)
        n == r.n
        buf == r.buf
        carry == Slice(out, Len(out) - Min(Len(out), Len(pattern) - 1), Len(out))
        index == Position(carry \o Slice(buf, 0, n), pattern)
        end_idx == index + Len(pattern) - Len(carry)
    IN  IF ~r.ok
        THEN [done |-> TRUE, kind |-> "Err", err |-> "Io", output |-> <<>>,
              internal |-> r.internal, raw |-> r.raw, popped |-> r.popped, n |-> 0,
              found |-> FALSE, endIdx |-> 0, data |-> <<>>]
        ELSE IF n = 0
        THEN [done |-> TRUE, kind |-> "Err", err |-> "UnexpectedEof", output |-> <<>>,
              internal |-> r.internal, raw |-> r.raw, popped |-> r.popped, n |-> 0,
              found |-> FALSE, endIdx |-> 0, data |-> <<>>]
        ELSE IF index # -1
        THEN [done |-> TRUE, kind |-> "Ok", err |-> "",
              output |-> out \o Slice(buf, 0, end_idx),
              internal |-> IF end_idx < n
                           THEN r.internal \o Slice(buf, end_idx, Len(buf))
                           ELSE r.internal,
              raw |-> r.raw, popped |-> r.popped, n |-> n, found |-> TRUE,
              endIdx |-> end_idx, data |-> Slice(buf, 0, n)]
        ELSE [done |-> FALSE, kind |-> "none", err |-> "",
              output |-> out \o buf,
              internal |-> r.internal, raw |-> r.raw, popped |-> r.popped, n |-> n,
              found |-> FALSE, endIdx |-> 0, data |-> Slice(buf, 0, n)]

\* A read_until_iter that takes a read of zero bytes for "nothing yet" and tries again
read_until_iter_retry_eof(q, out, pattern, N, d) ==
    LET r == internal_read(q, Zeros(N), d)
        n == r.n
        buf == r.buf
        index == Position(Slice(buf, 0, n), pattern)
        end_idx == index + Len(pattern)
    IN  IF ~r.ok
        THEN [done |-> TRUE, kind |-> "Err", err |-> "Io", output |-> <<>>,
              internal |-> r.internal, raw |-> r.raw, popped |-> r.popped, n |-> 0,
              found |-> FALSE, endIdx |-> 0, data |-> <<>>]
        ELSE IF index # -1
        THEN [done |-> TRUE, kind |-> "Ok", err |-> "",
              output |-> out \o Slice(buf, 0, end_idx),
              internal |-> IF end_idx < n
                           THEN r.internal \o Slice(buf, end_idx, Len(buf))
                           ELSE r.internal,
              raw |-> r.raw, popped |-> r.popped, n |-> n, found |-> TRUE,
              endIdx |-> end_idx, data |-> Slice(buf, 0, n)]
        ELSE [done |-> FALSE, kind |-> "none", err |-> "",
              output |-> out,
              internal |-> r.internal, raw |-> r.raw, popped |-> r.popped, n |-> n,
              found |-> FALSE, endIdx |-> 0, data |-> Slice(buf, 0, n)]

\* A read_until_iter that returns the bytes before the pattern, without it
read_until_iter_drops_pattern(q, out, pattern, N, d) ==
    LET r == internal_read(q, Zeros(N), d)
        n == r.n
        buf == r.buf
        index == Position(Slice(buf, 0, n), pattern)
        end_idx == index + Len(pattern)
    IN  IF ~r.ok
        THEN [done |-> TRUE, kind |-> "Err", err |-> "Io", output |-> <<>>,
              internal |-> r.internal, raw |-> r.raw, popped |-> r.popped, n |-> 0,
              found |-> FALSE, endIdx |-> 0, data |-> <<>>]
        ELSE IF n = 0
        THEN [done |-> TRUE, kind |-> "Err", err |-> "UnexpectedEof", output |-> <<>>,
              internal |-> r.internal, raw |-> r.raw, popped |-> r.popped, n |-> 0,
              found |-> FALSE, endIdx |-> 0, data |-> <<>>]
        ELSE IF index # -1
        THEN [done |-> TRUE, kind |-> "Ok", err |-> "",
              output |-> out \o Slice(buf, 0, index),
              internal |-> IF end_idx < n
                           THEN r.internal \o Slice(buf, end_idx, Len(buf))
                           ELSE r.internal,
              raw |-> r.raw, popped |-> r.popped, n |-> n, found |-> TRUE,
              endIdx |-> end_idx, data |-> Slice(buf, 0, n)]
        ELSE [done |-> FALSE, kind |-> "none", err |-> "",
              output |-> out \o buf,
              internal |-> r.internal, raw |-> r.raw, popped |-> r.popped, n |-> n,
              found |-> FALSE, endIdx |-> 0, data |-> Slice(buf, 0, n)]

\* q: self.internal, out: `output`, N: the chunk size, d: the raw read's return.
\* found/endIdx/n describe the chunk; done says whether the call returned.
read_until_iter(q, out, pattern, N, d) ==
    LET r == internal_read(q, Zeros(N), d)
        n == r.n
        buf == r.buf
        index == Position(Slice(buf, 0, n), pattern)
        end_idx == index + Len(pattern)
    IN  IF ~r.ok
        THEN [done |-> TRUE, kind |-> "Err", err |-> "Io", output |-> <<>>,
              internal |-> r.internal, raw |-> r.raw, popped |-> r.popped, n |-> 0, found |-> FALSE,
              endIdx |-> 0, data |-> <<>>]
        ELSE IF n = 0
        THEN [done |-> TRUE, kind |-> "Err", err |-> "UnexpectedEof", output |-> <<>>,
              internal |-> r.internal, raw |-> r.raw, popped |-> r.popped, n |-> 0, found |-> FALSE,
              endIdx |-> 0, data |-> <<>>]
        ELSE IF index # -1
        THEN [done |-> TRUE, kind |-> "Ok", err |-> "",
              output |-> out \o Slice(buf, 0, end_idx),
              internal |-> IF end_idx < n
                           THEN r.internal \o Slice(buf, end_idx, Len(buf))
                           ELSE r.internal,
              raw |-> r.raw, popped |-> r.popped, n |-> n, found |-> TRUE, endIdx |-> end_idx,
              data |-> Slice(buf, 0, n)]
        ELSE [done |-> FALSE, kind |-> "none", err |-> "",
              output |-> out \o buf,
              internal |-> r.internal, raw |-> r.raw, popped |-> r.popped, n |-> n, found |-> FALSE,
              endIdx |-> 0, data |-> Slice(buf, 0, n)]

\* Where the caller of read_until resumes
ReturnTo(c) ==
    CASE c = "start_line" -> "start_line_ret"
      [] c = "headers" -> "headers_ret"
      [] OTHER -> "idle"

\* Entry of read_until_with_chunk_size: output = Vec::with_capacity(N)
EnterReadUntil(c, pattern, N) ==
    /\ pc' = "loop"
    /\ caller' = c
    /\ pat' = pattern
    /\ chunk' = N
    /\ output' = <<>>
    /\ callStart' = spos
    /\ cuts' = {}

\* One pass of `loop { ... }` of the running read_until, with the read it makes
ReadUntilStep ==
    /\ pc = "loop"
    /\ \E d \in Deliveries(internal, chunk) :
         \E it \in {read_until_iter(internal, output, pat, chunk, d)} :
             /\ internal' = it.internal
             /\ SourceAfter(it, d)
             /\ output' = IF it.done THEN <<>> ELSE it.output
             /\ ret' = IF it.done
                       THEN [op |-> "read_until", kind |-> it.kind, err |-> it.err,
                             bytes |-> it.output]
                       ELSE ret
             /\ pc' = IF it.done THEN ReturnTo(caller) ELSE "loop"
             /\ spos' = IF it.found THEN spos + it.endIdx ELSE spos + it.n
             /\ cuts' = IF it.n > 0 THEN cuts \cup {spos + it.n} ELSE cuts
             /\ lastChunk' = [from |-> spos, data |-> it.data,
                              afterUntil |-> /\ it.n > 0
                                             /\ cuts = {}
                                             /\ ret.op = "read_until"
                                             /\ ret.kind = "Ok",
                              len |-> chunk, queued |-> Len(internal),
                              popped |-> it.popped, n |-> it.n, endIdx |-> it.endIdx,
                              seen |-> IF cuts = {} THEN it.data
                                       ELSE lastChunk.seen \o it.data]
    /\ UNCHANGED <<server, wire, caller, pat, chunk, start_line, outcome, calls,
                   callStart>>
    /\ UNCHANGED workers


----------------------------------------------------------------------------
(* Lexicon: TryFrom<&str> for Method and for Version, Version::is_supported *)

\* A decoder that folds case: "get" is taken for GET
Method_try_from_folding(value) ==
    CASE value \in {<<"G", "E", "T">>, <<"g", "e", "t">>, <<"G", "e", "T">>} -> "Get"
      [] value = <<"H", "E", "A", "D">> -> "Head"
      [] value = <<"P", "O", "S", "T">> -> "Post"
      [] value = <<"P", "U", "T">> -> "Put"
      [] value = <<"D", "E", "L", "E", "T", "E">> -> "Delete"
      [] value = <<"C", "O", "N", "N", "E", "C", "T">> -> "Connect"
      [] value = <<"O", "P", "T", "I", "O", "N", "S">> -> "Options"
      [] value = <<"T", "R", "A", "C", "E">> -> "Trace"
      [] OTHER -> "Format"

\* Err(RequestParsingError::Format) is "Format"
Method_try_from(value) ==
    CASE value = <<"G", "E", "T">> -> "Get"
      [] value = <<"H", "E", "A", "D">> -> "Head"
      [] value = <<"P", "O", "S", "T">> -> "Post"
      [] value = <<"P", "U", "T">> -> "Put"
      [] value = <<"D", "E", "L", "E", "T", "E">> -> "Delete"
      [] value = <<"C", "O", "N", "N", "E", "C", "T">> -> "Connect"
      [] value = <<"O", "P", "T", "I", "O", "N", "S">> -> "Options"
      [] value = <<"T", "R", "A", "C", "E">> -> "Trace"
      [] OTHER -> "Format"

Version_try_from(value) ==
    CASE value = <<"H", "T", "T", "P", "/", "0", ".", "9">> -> "V0_9"
      [] value = <<"H", "T", "T", "P", "/", "1">> -> "V1"
      [] value = <<"H", "T", "T", "P", "/", "1", ".", "1">> -> "V1_1"
      [] value = <<"H", "T", "T", "P", "/", "2">> -> "V2"
      [] value = <<"H", "T", "T", "P", "/", "3">> -> "V3"
      [] OTHER -> "Format"

\* is_supported letting HTTP/2 through
is_supported_v2(v) == v \in {"V1", "V1_1", "V2"}

\* matches!(self, Self::V1 | Self::V1_1)
is_supported(v) == v \in {"V1", "V1_1"}

Versions == {"V0_9", "V1", "V1_1", "V2", "V3"}

\* A Display that writes V1 as "HTTP/1.0"
Version_fmt_v1_0(v) ==
    CASE v = "V0_9" -> <<"H", "T", "T", "P", "/", "0", ".", "9">>
      [] v = "V1" -> <<"H", "T", "T", "P", "/", "1", ".", "0">>
      [] v = "V1_1" -> <<"H", "T", "T", "P", "/", "1", ".", "1">>
      [] v = "V2" -> <<"H", "T", "T", "P", "/", "2">>
      [] v = "V3" -> <<"H", "T", "T", "P", "/", "3">>

\* Display for Version: the canonical string of a variant
Version_fmt(v) ==
    CASE v = "V0_9" -> <<"H", "T", "T", "P", "/", "0", ".", "9">>
      [] v = "V1" -> <<"H", "T", "T", "P", "/", "1">>
      [] v = "V1_1" -> <<"H", "T", "T", "P", "/", "1", ".", "1">>
      [] v = "V2" -> <<"H", "T", "T", "P", "/", "2">>
      [] v = "V3" -> <<"H", "T", "T", "P", "/", "3">>

----------------------------------------------------------------------------
(* Request::try_from_reader *)

NoRequest ==
    [kind |-> "none", method |-> "", target |-> <<>>, version |-> "",
     headers |-> <<>>, body |-> "None", err |-> ""]

\* Lines 128-149: the start line's tokens. kind "pending" goes on to read_headers.
parse_start_line(line) ==
    LET items == Split(line, <<SP>>)
        method == Method_try_from(items[1])
        version == Version_try_from(items[3])
    IN  IF method = "Format" THEN [NoRequest EXCEPT !.kind = "Format"]
        ELSE IF Len(items) < 2 THEN [NoRequest EXCEPT !.kind = "Format"]
        ELSE IF Len(items) < 3 THEN [NoRequest EXCEPT !.kind = "Format"]
        ELSE IF version = "Format" THEN [NoRequest EXCEPT !.kind = "Format"]
        ELSE IF ~is_supported(version)
        THEN [NoRequest EXCEPT !.kind = "UnsupportedVersion", !.version = version]
        ELSE IF Len(items) - 3 # 0 THEN [NoRequest EXCEPT !.kind = "Format"]
        ELSE [NoRequest EXCEPT !.kind = "pending", !.method = method,
                               !.target = items[2], !.version = version]

\* read_start_line's tail (lines 55-57) under `.expect(...)` (line 126):
\* "panic", or the decoded line with its delimiter stripped. why: the call that
\* panicked, the caller's expect or strip_suffix(..).unwrap()
read_start_line_tail(r) ==
    IF r.kind = "Err" THEN [kind |-> "panic", why |-> "expect", str |-> <<>>]
    ELSE IF ~IsUtf8(r.bytes) THEN [kind |-> "panic", why |-> "expect", str |-> <<>>]
    ELSE IF ~StripSuffix(r.bytes, CRLF).some
    THEN [kind |-> "panic", why |-> "unwrap", str |-> <<>>]
    ELSE [kind |-> "Ok", why |-> "", str |-> StripSuffix(r.bytes, CRLF).str]

\* read_headers' tail (lines 62-64) and the `?` of line 151
read_headers_tail(r) ==
    IF r.kind = "Err" THEN [kind |-> "Io", err |-> r.err, headers |-> <<>>]
    ELSE IF ~IsUtf8(r.bytes) THEN [kind |-> "Format", err |-> "", headers |-> <<>>]
    ELSE IF ~StripSuffix(r.bytes, CRLFCRLF).some
    THEN [kind |-> "panic", err |-> "unwrap", headers |-> <<>>]
    ELSE [kind |-> "Ok", err |-> "",
          headers |-> Split(StripSuffix(r.bytes, CRLFCRLF).str, CRLF)]


----------------------------------------------------------------------------
(* Inputs: the requests a client may send, and how the source may behave *)

\* Short raw reads the source may make per connection
MaxPartial == 1
\* Failing raw reads the source may make per connection
MaxErrs == 1
\* Calls the reader harness makes on one reader
MaxCalls == 2

MethodTokens ==
    {<<"G", "E", "T">>, <<"H", "E", "A", "D">>, <<"P", "O", "S", "T">>, <<"P", "U", "T">>,
     <<"D", "E", "L", "E", "T", "E">>, <<"C", "O", "N", "N", "E", "C", "T">>, <<"O", "P", "T", "I", "O", "N", "S">>, <<"T", "R", "A", "C", "E">>}
VersionTokens ==
    {<<"H", "T", "T", "P", "/", "0", ".", "9">>, <<"H", "T", "T", "P", "/", "1">>, <<"H", "T", "T", "P", "/", "1", ".", "1">>, <<"H", "T", "T", "P", "/", "2">>, <<"H", "T", "T", "P", "/", "3">>}
BadMethodTokens == {<<"G", "e", "T">>, <<"g", "e", "t">>, <<"G", "E", "T", "S">>, <<>>}
BadVersionTokens == {<<"H", "T", "T", "p", "/", "1", ".", "1">>, <<"H", "T", "T", "P", "/", "1", ".", "0">>, <<"h", "t", "t", "p", "/", "1">>}
TargetTokens == {<<"/">>, <<"/", "a">>, <<"/", "a", "b", "c">>, <<"/", XFF>>}

T_GET == <<"G", "E", "T">>
T_ROOT == <<"/">>
T_V1_1 == <<"H", "T", "T", "P", "/", "1", ".", "1">>
T_V1 == <<"H", "T", "T", "P", "/", "1">>
T_V2 == <<"H", "T", "T", "P", "/", "2">>
H_HOST == <<"H", ":", "x">>
H_ACCEPT == <<"A", ":", " ", "y">>

\* The tokens of a start line
StartLines ==
    {<<m, T_ROOT, T_V1_1>> : m \in MethodTokens \cup BadMethodTokens}
    \cup {<<T_GET, t, v>> : t \in TargetTokens, v \in VersionTokens \cup BadVersionTokens}
    \cup {<<T_GET>>, <<T_GET, T_ROOT>>, <<T_GET, T_ROOT, T_V1_1, <<"x">>>>,
          <<T_GET, T_ROOT, T_V2, <<"x">>>>, <<T_GET, <<>>, T_ROOT, T_V1_1>>}

\* Header blocks: the header lines before the terminating blank line
HeaderBlocks == {<<>>, <<H_HOST>>, <<H_HOST, H_ACCEPT>>, <<<<"H", XFF>>>>}

RECURSIVE Join(_, _)
Join(pieces, sep) ==
    IF Len(pieces) = 0 THEN <<>>
    ELSE IF Len(pieces) = 1 THEN pieces[1]
    ELSE pieces[1] \o sep \o Join(Tail(pieces), sep)

RECURSIVE Lines(_)
Lines(hs) == IF Len(hs) = 0 THEN <<>> ELSE hs[1] \o CRLF \o Lines(Tail(hs))

\* start-line = METHOD SP TARGET SP VERSION CRLF, header-block = *(header-line CRLF) CRLF
Wire(tokens, hs) == Join(tokens, <<SP>>) \o CRLF \o Lines(hs) \o CRLF

\* A client that disconnects early sends only a prefix
Truncated == LET w == Wire(<<T_GET, T_ROOT, T_V1_1>>, <<H_HOST>>)
             IN  {Slice(w, 0, k) : k \in 0..(Len(w) - 1)}

Wires ==
    {Wire(t, <<H_HOST>>) : t \in StartLines}
    \cup {Wire(<<T_GET, T_ROOT, v>>, h) : v \in {T_V1, T_V1_1}, h \in HeaderBlocks}
    \cup Truncated

----------------------------------------------------------------------------
(* The acceptor loop and one connection's parse *)

Init ==
    /\ server = "accepting"
    /\ wire = <<>>
    /\ src = <<>>
    /\ partials = 0
    /\ errs = 0
    /\ internal = <<>>
    /\ pc = "idle"
    /\ caller = "none"
    /\ pat = <<>>
    /\ chunk = 0
    /\ output = <<>>
    /\ ret = NoResult
    /\ start_line = <<>>
    /\ outcome = NoRequest
    /\ calls = 0
    /\ spos = 0
    /\ callStart = 0
    /\ cuts = {}
    /\ lastChunk = NoChunk
    /\ workers = <<>>

\* listener.incoming() yields a stream; handle_connection makes the reader
\* (from_reader) and try_from_reader calls read_start_line.
Accept ==
    /\ server = "accepting"
    /\ \E w \in Wires :
         /\ wire' = w
         /\ src' = w
    /\ partials' = MaxPartial
    /\ errs' = MaxErrs
    /\ server' = "handling"
    /\ internal' = <<>>
    /\ EnterReadUntil("start_line", CRLF, START_LINE_CHUNK)
    /\ UNCHANGED <<ret, start_line, outcome, calls, spos, lastChunk>>
    /\ UNCHANGED workers

\* read_start_line has its bytes: decode, strip, tokenize; on to read_headers
ParseStartLine ==
    /\ pc = "start_line_ret"
    /\ LET line == read_start_line_tail(ret)
           req == parse_start_line(line.str)
       IN  IF line.kind = "panic"
           THEN /\ outcome' = [NoRequest EXCEPT !.kind = "panic", !.err = line.why]
                /\ server' = "panicked"
                /\ pc' = "done"
                /\ UNCHANGED <<start_line, caller, pat, chunk, output, callStart, cuts>>
           ELSE /\ start_line' = line.str
                /\ outcome' = req
                /\ UNCHANGED server
                /\ IF req.kind = "pending"
                   THEN EnterReadUntil("headers", CRLFCRLF, HEADERS_CHUNK)
                   ELSE /\ pc' = "returned"
                        /\ UNCHANGED <<caller, pat, chunk, output, callStart, cuts>>
    /\ UNCHANGED <<wire, src, partials, errs, internal, ret, calls, spos, lastChunk>>
    /\ UNCHANGED workers

\* read_headers has its bytes: decode, strip, split; the Request is built
BuildRequest ==
    /\ pc = "headers_ret"
    /\ LET h == read_headers_tail(ret)
       IN  IF h.kind = "panic"
           THEN /\ outcome' = [NoRequest EXCEPT !.kind = "panic", !.err = h.err]
                /\ server' = "panicked"
                /\ pc' = "done"
           ELSE /\ outcome' = IF h.kind = "Ok"
                              THEN [outcome EXCEPT !.kind = "Ok", !.headers = h.headers]
                              ELSE [NoRequest EXCEPT !.kind = h.kind, !.err = h.err]
                /\ UNCHANGED server
                /\ pc' = "returned"
    /\ UNCHANGED <<wire, src, partials, errs, internal, caller, pat, chunk, output,
                   ret, start_line, calls, spos, callStart, cuts, lastChunk>>
    /\ UNCHANGED workers

\* handle_connection: `Request::try_from(stream)?` then `todo!()`;
\* start_server: `handle_connection(stream?)?` ends the loop on Err
HandleReturn ==
    /\ pc = "returned"
    /\ server = "handling"
    /\ server' = IF outcome.kind = "Ok" THEN "panicked" ELSE "exited"
    /\ pc' = "done"
    /\ UNCHANGED <<wire, src, partials, errs, internal, caller, pat, chunk, output,
                   ret, start_line, outcome, calls, spos, callStart, cuts, lastChunk>>
    /\ UNCHANGED workers

Next ==
    \/ Accept
    \/ ReadUntilStep
    \/ ParseStartLine
    \/ BuildRequest
    \/ HandleReturn

Spec == Init /\ [][Next]_vars


----------------------------------------------------------------------------
(* The reader on its own: any sequence of read and read_until calls *)

\* Source contents: the tests' data, delimiters at and across chunk boundaries
ReaderWires ==
    {<<>>,
     <<"A", "B", "C", "D", "E", "F", "0", "1", "2", "3", "4", "5", CR, LF, "X", "X">>,
     <<"A", "B", "C", "D">>,
     <<"A", "B", CR, LF, "C", "D">>,
     <<"A", CR, LF, CR, LF, "B", "C">>,
     <<"A", "B", "C", CR, LF, "D", CR, LF, "E">>}

\* len(buf) of a read call
ReadLens == {0, 3}
\* N of a read_until call
ChunkSizes == {4, START_LINE_CHUNK}
Patterns == {CRLF, CRLFCRLF}

InitReader ==
    /\ server = "harness"
    /\ wire \in ReaderWires
    /\ src = wire
    /\ partials = MaxPartial
    /\ errs = MaxErrs
    /\ internal = <<>>
    /\ pc = "idle"
    /\ caller = "none"
    /\ pat = <<>>
    /\ chunk = 0
    /\ output = <<>>
    /\ ret = NoResult
    /\ start_line = <<>>
    /\ outcome = NoRequest
    /\ calls = 0
    /\ spos = 0
    /\ callStart = 0
    /\ cuts = {}
    /\ lastChunk = NoChunk
    /\ workers = <<>>

\* impl Read for RequestReader: read(buf) is internal_read(buf)
CallRead ==
    /\ pc = "idle"
    /\ calls < MaxCalls
    /\ \E len \in ReadLens :
         \E d \in Deliveries(internal, len) :
           LET r == internal_read(internal, Zeros(len), d)
           IN  /\ internal' = r.internal
               /\ SourceAfter(r, d)
               /\ ret' = IF r.ok
                         THEN [op |-> "read", kind |-> "Ok", err |-> "",
                               bytes |-> Slice(r.buf, 0, r.n)]
                         ELSE [op |-> "read", kind |-> "Err", err |-> "Io",
                               bytes |-> <<>>]
               /\ spos' = spos + r.n
               /\ lastChunk' = [from |-> spos, data |-> Slice(r.buf, 0, r.n),
                                afterUntil |-> /\ r.ok
                                               /\ ret.op = "read_until"
                                               /\ ret.kind = "Ok",
                                len |-> len, queued |-> Len(internal),
                                popped |-> r.popped, n |-> r.n, endIdx |-> 0,
                                seen |-> <<>>]
    /\ calls' = calls + 1
    /\ UNCHANGED <<server, wire, pc, caller, pat, chunk, output, start_line, outcome,
                   callStart, cuts>>
    /\ UNCHANGED workers

\* A call of read_until_with_chunk_size::<N>(pattern)
CallReadUntil ==
    /\ pc = "idle"
    /\ calls < MaxCalls
    /\ \E pattern \in Patterns, N \in ChunkSizes : EnterReadUntil("harness", pattern, N)
    /\ calls' = calls + 1
    /\ UNCHANGED <<server, wire, src, partials, errs, internal, ret, start_line,
                   outcome, spos, lastChunk>>
    /\ UNCHANGED workers

NextReader ==
    \/ CallRead
    \/ CallReadUntil
    \/ ReadUntilStep

SpecReader == InitReader /\ [][NextReader]_vars


----------------------------------------------------------------------------
(* Properties of the reader, checked under SpecReader *)

\* The last call was a read_until, it succeeded and no other has begun since
UntilOk == ret.op = "read_until" /\ ret.kind = "Ok" /\ pc # "loop"

\* The source bytes from the position where the last read_until was called
Ahead == Slice(wire, callStart, Len(wire))

\* The first occurrence of the pattern ahead is not cut by a chunk boundary
FirstOccurrenceInOneChunk ==
    LET i == Position(Ahead, pat)
    IN  /\ i # -1
        /\ \A c \in cuts : ~(callStart + i < c /\ c < callStart + i + Len(pat))

\* C2: when the first occurrence of the pattern lies inside one chunk, a successful
\* read_until returns exactly the source bytes from the stream position up to and
\* including that occurrence, whatever the sizes of the raw reads.
C2_ReadUntilReturnsSourceBytes ==
    (UntilOk /\ FirstOccurrenceInOneChunk)
        => ret.bytes = Slice(Ahead, 0, Position(Ahead, pat) + Len(pat))

\* C3: the first read after a successful read_until delivers the source bytes that
\* immediately follow the delimiter, in source order.
C3_NextReadFollowsDelimiter ==
    lastChunk.afterUntil
        => /\ lastChunk.from + Len(lastChunk.data) <= Len(wire)
           /\ lastChunk.data
                = Slice(wire, lastChunk.from, lastChunk.from + Len(lastChunk.data))

\* C4: in every state the pushback queue is exactly the bytes pulled from the source
\* and not yet handed to a caller, in source order.
C4_QueueIsPulledNotHanded ==
    internal = Slice(wire, spos, Len(wire) - Len(src))

\* C5: a read_until whose source is exhausted (a raw read of zero bytes with the
\* pushback queue empty) before the pattern is found fails with UnexpectedEof, and
\* no successful result is empty or stops short of the pattern.
C5_ExhaustionIsUnexpectedEof ==
    /\ [](UntilOk => /\ ret.bytes # <<>>
                     /\ StripSuffix(ret.bytes, pat).some)
    /\ [][(pc = "loop" /\ internal = <<>> /\ src = <<>> /\ errs' = errs)
            => (pc' # "loop" /\ ret'.op = "read_until" /\ ret'.kind = "Err"
                /\ ret'.err = "UnexpectedEof")]_vars

\* C5's case: bytes were read, the source ran dry and the call failed with UnexpectedEof
C5_Witness ==
    /\ ret.op = "read_until"
    /\ ret.kind = "Err"
    /\ ret.err = "UnexpectedEof"
    /\ wire # <<>>
    /\ src = <<>>
    /\ errs = MaxErrs
    /\ spos > callStart


----------------------------------------------------------------------------
(* Properties of the parser and of the acceptor loop, checked under Spec *)

\* try_from_reader is over: it returned or it panicked
ParseOver == pc \in {"returned", "done"}

\* The start line was read and tokenized (lines 128-149 ran)
Tokenized == outcome.kind \notin {"none", "panic"}

\* start_line.split(' ')
Items == Split(start_line, <<SP>>)

\* Requests of the wire grammar with a known method, a supported version, a text
\* target and one or more text header lines
ValidRequests ==
    {[t |-> t, h |-> h] : t \in {x \in StartLines : /\ Len(x) = 3
                                                    /\ x[1] \in MethodTokens
                                                    /\ IsUtf8(x[2])
                                                    /\ x[3] \in {T_V1, T_V1_1}},
                          h \in {y \in HeaderBlocks : /\ Len(y) >= 1
                                                      /\ \A i \in 1..Len(y) : IsUtf8(y[i])}}

\* C1: a request of the wire grammar with a known method and version HTTP/1 or
\* HTTP/1.1 parses to that method, target, version and header lines, whatever the
\* length of its start line and however the source splits its bytes.
C1_ValidRequestParses ==
    \A r \in ValidRequests :
        (ParseOver /\ wire = Wire(r.t, r.h) /\ errs = MaxErrs)
            => outcome = [kind |-> "Ok", method |-> Method_try_from(r.t[1]),
                          target |-> r.t[2], version |-> Version_try_from(r.t[3]),
                          headers |-> r.h, body |-> "None", err |-> ""]

\* C6: try_from_reader never terminates the process; it returns a Request or one of
\* the typed errors Io, Format, UnsupportedVersion.
C6_NeverPanics ==
    /\ outcome.kind # "panic"
    /\ ParseOver => outcome.kind \in {"Ok", "Io", "Format", "UnsupportedVersion"}

\* C7: a connection whose request fails to parse does not stop the server; once it
\* is handled the acceptor loop accepts again.
C7_FailedParseKeepsServing ==
    /\ outcome.kind \in {"Io", "Format", "UnsupportedVersion", "panic"}
           => server \notin {"exited", "panicked"}
    /\ (pc = "done" /\ outcome.kind # "Ok") => server = "accepting"

\* C8: a start line of fewer or of more than three tokens fails with Format,
\* whatever the tokens are.
C8_TokenCountIsFormat ==
    (Tokenized /\ Len(Items) # 3) => outcome.kind = "Format"

C10_UnknownTokenIsFormat ==
    (Tokenized /\ (\/ Items[1] \notin MethodTokens
                   \/ (Len(Items) >= 3 /\ Items[3] \notin VersionTokens)))
        => outcome.kind = "Format"

\* C10's case: a method in the wrong case, with a good target and version, is Format
C10_Witness ==
    /\ Tokenized
    /\ Len(Items) = 3
    /\ Items[1] = <<"g", "e", "t">>
    /\ Items[3] = T_V1_1
    /\ outcome.kind = "Format"

\* The bytes a successful read_until collected are not UTF-8 text
UndecodableBytes == ret.op = "read_until" /\ ret.kind = "Ok" /\ ~IsUtf8(ret.bytes)

\* C11: bytes that are not valid UTF-8, in the start line as well as in the header
\* block, make try_from_reader return Format.
C11_UndecodableTextIsFormat ==
    (ParseOver /\ UndecodableBytes) => outcome.kind = "Format"

\* Requests of the wire grammar with a known method, a supported version and any
\* number k >= 0 of text header lines
RequestsWithAnyHeaders ==
    {[t |-> r.t, h |-> h] : r \in ValidRequests,
                            h \in {y \in HeaderBlocks : \A i \in 1..Len(y) : IsUtf8(y[i])}}

\* C12: after the start line, a header block of k >= 0 lines, each followed by
\* CRLF, then the terminating CRLF, is returned by read_headers as exactly those k
\* strings in wire order; zero lines give the empty sequence.
C12_HeaderBlockYieldsItsLines ==
    \A r \in RequestsWithAnyHeaders :
        (ParseOver /\ wire = Wire(r.t, r.h) /\ errs = MaxErrs
                   /\ start_line = Join(r.t, <<SP>>))
            => outcome.kind = "Ok" /\ outcome.headers = r.h

----------------------------------------------------------------------------
(* The version lexicon on its own: decode (TryFrom<&str>) and encode (Display) *)

\* Strings near the canonical ones: their prefixes, with and without a tail
VersionStrings ==
    UNION {{Slice(t, 0, k) \o tail :
                k \in 0..Len(t), tail \in {<<>>, <<"1">>, <<".">>, <<".", "0">>, <<SP>>}} :
           t \in VersionTokens \cup BadVersionTokens}

InitLexicon ==
    /\ server = "lexicon"
    /\ wire = <<>>
    /\ src = <<>>
    /\ partials = 0
    /\ errs = 0
    /\ internal = <<>>
    /\ \/ /\ caller = "string"
          /\ pc = "decode"
          /\ start_line \in VersionStrings
          /\ outcome = NoRequest
       \/ /\ caller = "variant"
          /\ pc = "encode"
          /\ start_line = <<>>
          /\ outcome \in {[NoRequest EXCEPT !.version = v] : v \in Versions}
    /\ pat = <<>>
    /\ chunk = 0
    /\ output = <<>>
    /\ ret = NoResult
    /\ calls = 0
    /\ spos = 0
    /\ callStart = 0
    /\ cuts = {}
    /\ lastChunk = NoChunk
    /\ workers = <<>>

\* Version::try_from(start_line); a decoded string is encoded back
DecodeVersion ==
    /\ pc = "decode"
    /\ LET v == Version_try_from(start_line)
       IN  /\ outcome' = IF v = "Format"
                         THEN [NoRequest EXCEPT !.kind = "Format"]
                         ELSE [NoRequest EXCEPT !.kind = "Ok", !.version = v]
           /\ pc' = IF caller = "string" /\ v # "Format" THEN "encode" ELSE "done"
    /\ calls' = calls + 1
    /\ UNCHANGED <<server, wire, src, partials, errs, internal, caller, pat, chunk,
                   output, ret, start_line, spos, callStart, cuts, lastChunk>>
    /\ UNCHANGED workers

\* version.to_string(); an encoded variant is decoded back
EncodeVersion ==
    /\ pc = "encode"
    /\ ret' = [op |-> "fmt", kind |-> "Ok", err |-> "",
               bytes |-> Version_fmt(outcome.version), of |-> outcome.version]
    /\ IF caller = "variant"
       THEN /\ start_line' = Version_fmt(outcome.version)
            /\ pc' = "decode"
       ELSE /\ UNCHANGED start_line
            /\ pc' = "done"
    /\ calls' = calls + 1
    /\ UNCHANGED <<server, wire, src, partials, errs, internal, caller, pat, chunk,
                   output, outcome, spos, callStart, cuts, lastChunk>>
    /\ UNCHANGED workers

NextLexicon ==
    \/ DecodeVersion
    \/ EncodeVersion

SpecLexicon == InitLexicon /\ [][NextLexicon]_vars

\* C13: decode and encode of Version are mutually inverse on the five versions and
\* their five strings: a canonical string decodes and encodes back to itself, a
\* version encodes and decodes back to itself, and every other string is rejected.
C13_VersionRoundTrips ==
    (server = "lexicon" /\ pc = "done")
        => IF caller = "string"
           THEN IF start_line \in VersionTokens
                THEN /\ outcome.kind = "Ok"
                     /\ ret.op = "fmt"
                     /\ ret.bytes = start_line
                ELSE outcome.kind = "Format"
           ELSE /\ outcome.kind = "Ok"
                /\ outcome.version = ret.of

\* C13's case: V1 was encoded to "HTTP/1" and that string decoded back to V1
C13_Witness ==
    /\ server = "lexicon"
    /\ pc = "done"
    /\ caller = "variant"
    /\ ret.of = "V1"
    /\ start_line = T_V1
    /\ outcome.version = "V1"

----------------------------------------------------------------------------
(* Two workers, each parsing its own connection with its own RequestReader *)

Workers == {1, 2}

\* What the two clients send
PairWires ==
    {Wire(<<T_GET, T_ROOT, T_V1_1>>, <<H_HOST>>),
     Wire(<<T_GET, T_ROOT, T_V1>>, <<H_HOST, H_ACCEPT>>),
     Wire(<<T_GET, T_ROOT, T_V2>>, <<H_HOST>>),
     Wire(<<<<"P", "O", "S", "T">>, <<"/", "a", "b", "c">>, T_V1_1>>, <<H_ACCEPT>>),
     Wire(<<<<"g", "e", "t">>, T_ROOT, T_V1_1>>, <<H_HOST>>),
     <<"G", "E", "T", SP, "/">>}

\* Request::try_from(stream) at its first read_until: a new reader over the stream
StartWorker(w) ==
    [wire |-> w, src |-> w, internal |-> <<>>, pc |-> "loop", caller |-> "start_line",
     pat |-> CRLF, chunk |-> START_LINE_CHUNK, output |-> <<>>, ret |-> NoResult,
     start_line |-> <<>>, outcome |-> NoRequest]

\* A queue shared by every reader: all of them pop the first reader's
QueueOf_shared(w, i) == w[1].internal

\* self.internal of worker i's reader
QueueOf(w, i) == w[i].internal

\* The call of read_until a worker's parser makes next
WorkerEnter(st, c, pattern, N) ==
    [st EXCEPT !.pc = "loop", !.caller = c, !.pat = pattern, !.chunk = N,
               !.output = <<>>]

\* One step of a worker whose reader has queue q: a pass of the read_until loop, or
\* the parser's code after read_start_line or read_headers returned. The stream
\* delivers all it has to a raw read.
WorkerStep(st, q) ==
    CASE st.pc = "loop" ->
           LET d == IF Len(q) >= st.chunk
                    THEN [err |-> FALSE, data |-> <<>>, short |-> FALSE]
                    ELSE CHOOSE x \in RawReads(st.src, 0, 0) : TRUE
               it == read_until_iter(q, st.output, st.pat, st.chunk, d)
           IN  [st EXCEPT !.internal = it.internal,
                          !.src = IF it.raw THEN Slice(st.src, Len(d.data), Len(st.src))
                                  ELSE st.src,
                          !.output = IF it.done THEN <<>> ELSE it.output,
                          !.ret = IF it.done
                                  THEN [op |-> "read_until", kind |-> it.kind,
                                        err |-> it.err, bytes |-> it.output]
                                  ELSE st.ret,
                          !.pc = IF it.done THEN ReturnTo(st.caller) ELSE "loop"]
      [] st.pc = "start_line_ret" ->
           LET line == read_start_line_tail(st.ret)
               req == parse_start_line(line.str)
           IN  IF line.kind = "panic"
               THEN [st EXCEPT !.outcome = [NoRequest EXCEPT !.kind = "panic",
                                                             !.err = line.why],
                               !.pc = "done"]
               ELSE IF req.kind = "pending"
               THEN WorkerEnter([st EXCEPT !.start_line = line.str, !.outcome = req],
                                "headers", CRLFCRLF, HEADERS_CHUNK)
               ELSE [st EXCEPT !.start_line = line.str, !.outcome = req,
                               !.pc = "returned"]
      [] st.pc = "headers_ret" ->
           LET h == read_headers_tail(st.ret)
           IN  IF h.kind = "panic"
               THEN [st EXCEPT !.outcome = [NoRequest EXCEPT !.kind = "panic",
                                                             !.err = h.err],
                               !.pc = "done"]
               ELSE [st EXCEPT !.outcome = IF h.kind = "Ok"
                                           THEN [st.outcome EXCEPT !.kind = "Ok",
                                                                   !.headers = h.headers]
                                           ELSE [NoRequest EXCEPT !.kind = h.kind,
                                                                  !.err = h.err],
                               !.pc = "returned"]
      [] OTHER -> st

\* try_from_reader of the worker is over
WorkerOver(st) == st.pc \in {"returned", "done"}

\* The worker run to its end with no other worker around
RECURSIVE RunAlone(_)
RunAlone(st) == IF WorkerOver(st) THEN st ELSE RunAlone(WorkerStep(st, st.internal))

InitPair ==
    /\ server = "pair"
    /\ wire = <<>>
    /\ src = <<>>
    /\ partials = 0
    /\ errs = 0
    /\ internal = <<>>
    /\ pc = "idle"
    /\ caller = "none"
    /\ pat = <<>>
    /\ chunk = 0
    /\ output = <<>>
    /\ ret = NoResult
    /\ start_line = <<>>
    /\ outcome = NoRequest
    /\ calls = 0
    /\ spos = 0
    /\ callStart = 0
    /\ cuts = {}
    /\ lastChunk = NoChunk
    /\ workers \in {[i \in Workers |-> StartWorker(w[i])] : w \in [Workers -> PairWires]}

\* Worker i runs one step on its own reader
PairStep(i) ==
    /\ ~WorkerOver(workers[i])
    /\ workers' = [workers EXCEPT ![i] = WorkerStep(workers[i], QueueOf(workers, i))]
    /\ UNCHANGED <<server, wire, src, partials, errs, internal, pc, caller, pat, chunk,
                   output, ret, start_line, outcome, calls, spos, callStart, cuts,
                   lastChunk>>

NextPair == \E i \in Workers : PairStep(i)

SpecPair == InitPair /\ [][NextPair]_vars

----------------------------------------------------------------------------
(* More properties of the reader, checked under SpecReader *)

\* This step is a call of read(buf)
ReadCall == pc = "idle" /\ pc' = "idle" /\ calls' = calls + 1

\* C15: read(buf) pops min(len(buf), queue length) bytes from the queue in FIFO
\* order; it touches the source only when the queue could not fill buf, and then
\* with one raw read; with a queue of at least len(buf) bytes or an empty buf the
\* source is untouched; the count returned is the bytes popped plus the smaller of
\* the bytes the raw read delivered and the space left in buf.
C15_ReadPopsThenReadsOnce ==
    [][ReadCall =>
        LET len == lastChunk'.len
            k == Min(len, Len(internal))
            delivered == Len(src) - Len(src')
            taken == Min(delivered, len - k)
        IN  /\ lastChunk'.popped = k
            /\ (len = 0 \/ Len(internal) >= len)
                   => /\ src' = src /\ errs' = errs /\ partials' = partials
                      /\ ret'.kind = "Ok"
                      /\ internal' = Slice(internal, k, Len(internal))
            /\ delivered <= BUFFERED_READER_BUF_SIZE
            /\ errs' # errs => (errs' = errs - 1 /\ src' = src /\ ret'.kind = "Err")
            /\ ret'.kind = "Ok"
                   => /\ lastChunk'.n = k + taken
                      /\ ret'.bytes = Slice(internal, 0, k) \o Slice(src, 0, taken)
                      /\ Slice(internal', 0, Len(internal) - k)
                             = Slice(internal, k, Len(internal))]_vars

\* C15's case: a read of 3 bytes popped the 2 bytes the queue held and took the
\* third from its one raw read
C15_Witness ==
    /\ ret.op = "read"
    /\ ret.kind = "Ok"
    /\ lastChunk.len = 3
    /\ lastChunk.queued = 2
    /\ lastChunk.popped = 2
    /\ lastChunk.n = 3

\* The last call was a read_until and it has returned
UntilOver == ret.op = "read_until" /\ pc # "loop"

\* The first occurrence of the pattern in the bytes the call's chunks held begins
\* in one chunk and ends in the next
FirstOccurrenceSpansChunks ==
    LET i == Position(lastChunk.seen, pat)
    IN  /\ i # -1
        /\ \E c \in cuts : callStart + i < c /\ c < callStart + i + Len(pat)

\* C16: the search is scoped to one chunk. read_until does not stop at an occurrence
\* that begins in one chunk and ends in the next: it goes on to a later occurrence
\* lying inside a single chunk, or fails at the end of the stream (or on an I/O error).
C16_SearchIsScopedToOneChunk ==
    (UntilOver /\ FirstOccurrenceSpansChunks)
        => \/ ret.kind = "Err" /\ ret.err \in {"UnexpectedEof", "Io"}
           \/ /\ ret.kind = "Ok"
              /\ Position(lastChunk.data, pat) # -1
              /\ lastChunk.endIdx = Position(lastChunk.data, pat) + Len(pat)
              /\ spos - callStart > Position(lastChunk.seen, pat) + Len(pat)

\* C16's case: over "ABC\r\nD\r\nE" in chunks of 4 the first CRLF spans the chunks
\* "ABC\r" and "\nD\r\n"; the call returns at the second CRLF
C16_Witness ==
    /\ UntilOver
    /\ FirstOccurrenceSpansChunks
    /\ wire = <<"A", "B", "C", CR, LF, "D", CR, LF, "E">>
    /\ chunk = 4
    /\ ret.kind = "Ok"
    /\ ret.bytes = <<"A", "B", "C", CR, LF, "D", CR, LF>>

\* A new reader on which the harness makes one call
InitOneCall ==
    /\ server = "harness"
    /\ wire \in ReaderWires
    /\ src = wire
    /\ partials = MaxPartial
    /\ errs = MaxErrs
    /\ internal = <<>>
    /\ pc = "idle"
    /\ caller = "none"
    /\ pat = <<>>
    /\ chunk = 0
    /\ output = <<>>
    /\ ret = NoResult
    /\ start_line = <<>>
    /\ outcome = NoRequest
    /\ calls = MaxCalls - 1
    /\ spos = 0
    /\ callStart = 0
    /\ cuts = {}
    /\ lastChunk = NoChunk
    /\ workers = <<>>

\* The loop of read_until runs on its caller's thread with nothing to wait for but
\* its own raw read, which returns: a pass that can be made is made
SpecReaderFair == InitOneCall /\ [][NextReader]_vars /\ WF_vars(ReadUntilStep)

\* C17: over a finite source followed by exhaustion (or an I/O error) every call of
\* read_until returns; a pass of its loop that does not return has taken at least
\* one byte from the queue or the source; the pushback queue stays bounded.
C17_ReadUntilTerminates ==
    /\ (pc = "loop") ~> (pc # "loop")
    /\ [][(pc = "loop" /\ pc' = "loop")
            => /\ lastChunk'.n >= 1
               /\ lastChunk'.popped >= 1 \/ Len(src') < Len(src)]_vars
    /\ [](Len(internal) <= BUFFERED_READER_BUF_SIZE + HEADERS_CHUNK)

\* C17's case: a call that went through more than one pass of the loop, drained a
\* queue longer than the source ever was, and returned at the end of the stream
C17_Witness ==
    /\ UntilOver
    /\ ret.err = "UnexpectedEof"
    /\ Cardinality(cuts) >= 2
    /\ spos - callStart > Len(wire)
    /\ src = <<>>
    /\ internal = <<>>
    /\ wire # <<>>

----------------------------------------------------------------------------
(* The reader's internal assertions, checked under Spec *)

\* C18: the reader's internal assertions never fail: a successful read_until result
\* ends with the pattern, so strip_suffix(..).unwrap() in read_start_line and
\* read_headers never panics; end_idx never exceeds the bytes read; internal_read
\* never pops more than the queue holds.
C18_ReaderAssertionsHold ==
    /\ UntilOk => StripSuffix(ret.bytes, pat).some
    /\ outcome.kind = "panic" => outcome.err # "unwrap"
    /\ lastChunk.endIdx <= lastChunk.n
    /\ lastChunk.popped <= lastChunk.queued

\* C18's case: read_headers found its pattern in a chunk popped from the queue and
\* its strip_suffix succeeded
C18_Witness ==
    /\ UntilOk
    /\ caller = "headers"
    /\ outcome.kind = "Ok"
    /\ lastChunk.popped > 0
    /\ lastChunk.endIdx > 0
    /\ lastChunk.endIdx < lastChunk.n

----------------------------------------------------------------------------
(* Error handling of read, checked under SpecReader *)

\* C19: when the source returns an I/O error during read(buf), the pushback queue
\* is the same after the failed call as before it: no byte already pulled is lost.
C19_FailedReadKeepsQueue ==
    [][(ReadCall /\ ret'.kind = "Err") => internal' = internal]_vars

====
